---------------------------- MODULE Spec2Model ----------------------------
(***************************************************************************)
(* Model of scan-and-close-snyk-prs.js: the run() workflow (load the       *)
(* configuration, scan every repository page by page, write the CSV        *)
(* report, ask for confirmation, close the matched pull requests) together *)
(* with getAllOpenPRs, isSnykPR, closePR and generateCSV.                  *)
(*                                                                         *)
(* Strings that the code inspects (titles, logins, the answer) are         *)
(* sequences of one-character strings, so toLowerCase, includes and        *)
(* replace are computed character by character.  The GitHub collaborator   *)
(* is the environment: every call either returns or throws, and a list     *)
(* call returns any page the bounds allow.  trace records every            *)
(* collaborator call, pause, file write and prompt in the order the run    *)
(* performs them.                                                          *)
(***************************************************************************)
EXTENDS Integers, Sequences, FiniteSets, TLC

VARIABLES
    configFile,    \* content of repo.json on disk (REPO_FILE)
    pc,            \* position of run()
    repoConfig,    \* Object.entries(repoConfig), in key order
    repoIdx,       \* index of the for..of loop over the repositories
    prs,           \* getAllOpenPRs: the local prs array
    page,          \* getAllOpenPRs: the local page counter
    scanned,       \* run: const prs, the value getAllOpenPRs returned
    allSnykPRs,    \* run: the matched sequence
    csvFile,       \* content of snyk-prs-report.csv on disk (CSV_FILE)
    answer,        \* run: const answer
    closeIdx,      \* index of the for..of loop over allSnykPRs
    successCount,  \* run: let successCount
    failCount,     \* run: let failCount
    closed,        \* remote state: pull requests whose state was set to closed
    trace,         \* calls, pauses, file writes and prompts, in order
    exitCode,      \* process exit status, NoExit while running
    served         \* number of pull requests the collaborator has returned

vars == << configFile, pc, repoConfig, repoIdx, prs, page, scanned, allSnykPRs,
           csvFile, answer, closeIdx, successCount, failCount, closed, trace,
           exitCode, served >>

-----------------------------------------------------------------------------
(* Bounds of the model *)

\* longest configuration file, in repositories
MaxRepos == 2

\* pull requests the collaborator returns over one run, all pages together
MaxOpen == 2

-----------------------------------------------------------------------------
(* Constants of the program *)

PerPage == 100
ScanDelay == 500
CloseDelay == 1000
NoExit == -1

\* the fixed reason text handed to closePR
Reason ==
    "Closing this Snyk PR as it is no longer required. This PR was automatically closed as part of a cleanup process."

NoFile == << >>

\* a report that an earlier run left at CSV_FILE
OldFile == << << "Repository" >>, << "stale" >> >>
NoAnswer == << "?" >>

-----------------------------------------------------------------------------
(* Strings *)

Upper == << "A","B","C","D","E","F","G","H","I","J","K","L","M",
            "N","O","P","Q","R","S","T","U","V","W","X","Y","Z" >>
Lower == << "a","b","c","d","e","f","g","h","i","j","k","l","m",
            "n","o","p","q","r","s","t","u","v","w","x","y","z" >>

\* the lower-case letter of every upper-case letter
LowerOf ==
    [c \in { Upper[i] : i \in 1..26 } |->
        Lower[CHOOSE i \in 1..26 : Upper[i] = c]]

\* String.prototype.toLowerCase on one character
LowerChar(c) == IF c \in DOMAIN LowerOf THEN LowerOf[c] ELSE c

\* String.prototype.toLowerCase
toLowerCase(s) == [i \in 1..Len(s) |-> LowerChar(s[i])]

\* String.prototype.includes
includes(s, sub) ==
    \E i \in 0..(Len(s) - Len(sub)) :
        \A j \in 1..Len(sub) : s[i + j] = sub[j]

snyk == << "s","n","y","k" >>
snykBracket == << "[","s","n","y","k","]" >>
snykBot == << "s","n","y","k","-","b","o","t" >>

\* mutant of isSnykPR: the title is not lower-cased
isSnykPRTitleAsIs(pr) ==
    LET title == pr.title
        username == toLowerCase(pr.user.login)
    IN  \/ includes(title, snyk)
        \/ includes(title, snykBracket)
        \/ username = snykBot
        \/ includes(username, snyk)

isSnykPR(pr) ==
    LET title == toLowerCase(pr.title)
        username == toLowerCase(pr.user.login)
    IN  \/ includes(title, snyk)
        \/ includes(title, snykBracket)
        \/ username = snykBot
        \/ includes(username, snyk)

\* Array.prototype.filter(isSnykPR)
Filter(s) == SelectSeq(s, isSnykPR)

-----------------------------------------------------------------------------
(* Inputs *)

\* entries of repo.json that name a repository, each under its key; two keys
\* may name the same repository
Targets ==
    { [key |-> << "c","l","i" >>, hasGithub |-> TRUE,
       owner |-> "acme", repoName |-> "cli"],
      [key |-> << "7" >>, hasGithub |-> TRUE,
       owner |-> "acme", repoName |-> "sdk"],
      [key |-> << "1","0" >>, hasGithub |-> TRUE,
       owner |-> "acme", repoName |-> "cli"] }

\* an entry without a github field: destructuring it throws a TypeError
NoGithub ==
    [key |-> << "x" >>, hasGithub |-> FALSE, owner |-> "", repoName |-> ""]

Entries == Targets \cup {NoGithub}

\* the files repo.json can be: absent, not JSON, the JSON value null, or an
\* object whose entries stand in file order under distinct keys
ConfigFiles ==
    { [kind |-> "missing", entries |-> << >>],
      [kind |-> "invalid", entries |-> << >>],
      [kind |-> "null", entries |-> << >>] }
    \cup
    { [kind |-> "object", entries |-> e] :
        e \in { f \in UNION { [1..n -> Entries] : n \in 0..MaxRepos } :
                  \A i, j \in DOMAIN f : f[i] = f[j] => i = j } }

Digits == << "0","1","2","3","4","5","6","7","8","9" >>

IsDigit(c) == \E d \in 1..10 : Digits[d] = c

RECURSIVE NumValue(_)
\* the number a string of digits denotes
NumValue(k) ==
    IF k = << >> THEN 0
    ELSE 10 * NumValue(SubSeq(k, 1, Len(k) - 1))
         + (CHOOSE d \in 0..9 : Digits[d + 1] = k[Len(k)])

\* a property key that is an integer index: a canonical numeric string
IsIndexKey(k) ==
    /\ Len(k) >= 1
    /\ Len(k) <= 9
    /\ \A i \in DOMAIN k : IsDigit(k[i])
    /\ Len(k) > 1 => k[1] # "0"

RECURSIVE InsertByIndex(_, _)
InsertByIndex(e, sorted) ==
    IF sorted = << >> THEN << e >>
    ELSE IF NumValue(e.key) < NumValue(Head(sorted).key)
         THEN << e >> \o sorted
         ELSE << Head(sorted) >> \o InsertByIndex(e, Tail(sorted))

RECURSIVE SortByIndex(_)
SortByIndex(es) ==
    IF es = << >> THEN << >>
    ELSE InsertByIndex(Head(es), SortByIndex(Tail(es)))

HasIndexKey(e) == IsIndexKey(e.key)
HasNameKey(e) == ~ IsIndexKey(e.key)

\* mutant of ObjectEntries: the properties in file order
EntriesInFileOrder(es) == es

\* Object.entries of the parsed object: the integer-index keys in ascending
\* numeric order, then the other keys in the order of the file
ObjectEntries(es) ==
    SortByIndex(SelectSeq(es, HasIndexKey)) \o SelectSeq(es, HasNameKey)

\* pull requests the collaborator can return
Pool ==
    { [number |-> 1,
       title |-> << "[","S","n","y","k","]"," ","F","i","x" >>,
       user |-> [login |-> << "b","o","b" >>],
       created_at |-> "2024-01-01", updated_at |-> "2024-01-02",
       html_url |-> "u1"],
      [number |-> 2,
       title |-> << "B","u","m","p" >>,
       user |-> [login |-> << "b","o","b" >>],
       created_at |-> "2024-02-01", updated_at |-> "2024-02-02",
       html_url |-> "u2"],
      [number |-> 3,
       title |-> << "B","u","m","p"," ","\"","x","\"" >>,
       user |-> [login |-> << "S","n","y","k","-","B","o","t" >>],
       created_at |-> "2024-03-01", updated_at |-> "2024-03-02",
       html_url |-> "u3"] }

\* non-empty pages the collaborator can still return: one listing of a
\* repository holds no pull request twice
Pages ==
    { data \in UNION { [1..n -> Pool] : n \in 1..(MaxOpen - served) } :
        /\ \A i, j \in DOMAIN data : data[i] = data[j] => i = j
        /\ \A i \in DOMAIN data : \A j \in DOMAIN prs : data[i] # prs[j] }

\* answers typed at the prompt
Answers ==
    { << "Y","e","S" >>, << "y" >>,
      << "n","o" >>, << >>, << " ","y","e","s" >> }

-----------------------------------------------------------------------------
(* Events of the trace *)

\* scan is the iteration of the repository loop that made the call, data the
\* page the collaborator returned (empty when the call threw)
ListCall(o, r, p, ok, data) ==
    [op |-> "list", owner |-> o, repo |-> r, state |-> "open",
     per_page |-> PerPage, page |-> p, ok |-> ok, data |-> data,
     scan |-> repoIdx]

UpdateCall(o, r, number, ok) ==
    [op |-> "update", owner |-> o, repo |-> r, pull_number |-> number,
     state |-> "closed", ok |-> ok]

CommentCall(o, r, number, body, ok) ==
    [op |-> "comment", owner |-> o, repo |-> r, issue_number |-> number,
     body |-> body, ok |-> ok]

PauseEvent(ms) == [op |-> "pause", ms |-> ms]
WriteEvent(ok) == [op |-> "writeCSV", ok |-> ok]
PromptEvent == [op |-> "prompt"]

-----------------------------------------------------------------------------
(* generateCSV *)

Quote == "\""

RECURSIVE EscapeFirstQuote(_)
\* mutant of EscapeQuotes: replace without the g flag, the first quote only
EscapeFirstQuote(s) ==
    IF s = << >> THEN << >>
    ELSE IF Head(s) = Quote THEN << Quote, Quote >> \o Tail(s)
    ELSE << Head(s) >> \o EscapeFirstQuote(Tail(s))

RECURSIVE EscapeQuotes(_)
\* title.replace(/"/g, '""')
EscapeQuotes(s) ==
    IF s = << >> THEN << >>
    ELSE (IF Head(s) = Quote THEN << Quote, Quote >> ELSE << Head(s) >>)
         \o EscapeQuotes(Tail(s))

Headers ==
    << "Repository", "Owner", "PR Number", "PR Title", "Author",
       "Created Date", "Updated Date", "PR URL" >>

Row(item) ==
    << item.repo, item.owner, item.pr.number,
       << Quote >> \o EscapeQuotes(item.pr.title) \o << Quote >>,
       item.pr.user.login, item.pr.created_at, item.pr.updated_at,
       item.pr.html_url >>

\* mutant of CsvLines: the last matched pull request gets no row
CsvLinesShort(snykPRs) ==
    << Headers >> \o [i \in 1..(Len(snykPRs) - 1) |-> Row(snykPRs[i])]

\* the lines of csvContent, the header first
CsvLines(snykPRs) ==
    << Headers >> \o [i \in 1..Len(snykPRs) |-> Row(snykPRs[i])]

-----------------------------------------------------------------------------
(* run *)

Init ==
    /\ configFile \in ConfigFiles
    /\ pc = "load"
    /\ repoConfig = << >>
    /\ repoIdx = 1
    /\ prs = << >>
    /\ page = 1
    /\ scanned = << >>
    /\ allSnykPRs = << >>
    /\ csvFile \in {NoFile, OldFile}
    /\ answer = NoAnswer
    /\ closeIdx = 1
    /\ successCount = 0
    /\ failCount = 0
    /\ closed = {}
    /\ trace = << >>
    /\ exitCode = NoExit
    /\ served = 0

\* process.exit(code), or the end of run()
Exit(code) ==
    /\ pc' = "done"
    /\ exitCode' = code

\* mutant of LoadConfig: the catch block goes on with an empty configuration
LoadConfigIgnoresError ==
    /\ pc = "load"
    /\ repoConfig' = ObjectEntries(configFile.entries)
    /\ pc' = "scan"
    /\ UNCHANGED << configFile, repoIdx, prs, page, scanned, allSnykPRs, csvFile,
                    answer, closeIdx, successCount, failCount, closed, trace,
                    exitCode, served >>

\* Step 1: readFileSync + JSON.parse + Object.keys inside try/catch; the loop
\* of Step 2 iterates Object.entries of the parsed object
LoadConfig ==
    /\ pc = "load"
    /\ IF configFile.kind = "object"
       THEN /\ repoConfig' = ObjectEntries(configFile.entries)
            /\ pc' = "scan"
            /\ UNCHANGED exitCode
       ELSE /\ Exit(1)
            /\ UNCHANGED repoConfig
    /\ UNCHANGED << configFile, repoIdx, prs, page, scanned, allSnykPRs, csvFile,
                    answer, closeIdx, successCount, failCount, closed, trace,
                    served >>

\* head of the for..of loop over the repositories, up to the call of
\* getAllOpenPRs
ScanRepo ==
    /\ pc = "scan"
    /\ IF repoIdx > Len(repoConfig)
       THEN /\ pc' = "report"
            /\ UNCHANGED << prs, page, exitCode >>
       ELSE IF ~ repoConfig[repoIdx].hasGithub
       THEN /\ Exit(1)
            /\ UNCHANGED << prs, page >>
       ELSE /\ prs' = << >>
            /\ page' = 1
            /\ pc' = "list"
            /\ UNCHANGED exitCode
    /\ UNCHANGED << configFile, repoConfig, repoIdx, scanned, allSnykPRs, csvFile,
                    answer, closeIdx, successCount, failCount, closed, trace,
                    served >>

owner == repoConfig[repoIdx].owner
repoName == repoConfig[repoIdx].repoName

\* mutant of ListReturnsPage: the page counter is not incremented
ListReturnsPageSamePage ==
    /\ pc = "list"
    /\ \E data \in Pages :
        /\ trace' = Append(trace, ListCall(owner, repoName, page, TRUE, data))
        /\ prs' = prs \o data
        /\ served' = served + Len(data)
    /\ UNCHANGED << configFile, pc, repoConfig, repoIdx, page, scanned,
                    allSnykPRs, csvFile, answer, closeIdx, successCount,
                    failCount, closed, exitCode >>

\* mutant of ListReturnsPage: the loop ends after the first non-empty page
ListReturnsPageStops ==
    /\ pc = "list"
    /\ \E data \in Pages :
        /\ trace' = Append(trace, ListCall(owner, repoName, page, TRUE, data))
        /\ prs' = prs \o data
        /\ scanned' = prs \o data
        /\ served' = served + Len(data)
    /\ page' = page + 1
    /\ pc' = "filter"
    /\ UNCHANGED << configFile, repoConfig, repoIdx, allSnykPRs, csvFile, answer,
                    closeIdx, successCount, failCount, closed, exitCode >>

\* getAllOpenPRs: octokit.pulls.list returns a non-empty page
ListReturnsPage ==
    /\ pc = "list"
    /\ \E data \in Pages :
        /\ trace' = Append(trace, ListCall(owner, repoName, page, TRUE, data))
        /\ prs' = prs \o data
        /\ served' = served + Len(data)
    /\ page' = page + 1
    /\ UNCHANGED << configFile, pc, repoConfig, repoIdx, scanned, allSnykPRs,
                    csvFile, answer, closeIdx, successCount, failCount, closed,
                    exitCode >>

\* getAllOpenPRs: octokit.pulls.list returns an empty page
ListReturnsEmpty ==
    /\ pc = "list"
    /\ trace' = Append(trace, ListCall(owner, repoName, page, TRUE, << >>))
    /\ scanned' = prs
    /\ pc' = "filter"
    /\ UNCHANGED << configFile, repoConfig, repoIdx, prs, page, allSnykPRs,
                    csvFile, answer, closeIdx, successCount, failCount, closed,
                    exitCode, served >>

\* mutant of ListFails: the catch block returns the pages fetched so far
ListFailsKeepsPages ==
    /\ pc = "list"
    /\ trace' = Append(trace, ListCall(owner, repoName, page, FALSE, << >>))
    /\ scanned' = prs
    /\ pc' = "filter"
    /\ UNCHANGED << configFile, repoConfig, repoIdx, prs, page, allSnykPRs,
                    csvFile, answer, closeIdx, successCount, failCount, closed,
                    exitCode, served >>

\* getAllOpenPRs: octokit.pulls.list throws
ListFails ==
    /\ pc = "list"
    /\ trace' = Append(trace, ListCall(owner, repoName, page, FALSE, << >>))
    /\ scanned' = << >>
    /\ pc' = "filter"
    /\ UNCHANGED << configFile, repoConfig, repoIdx, prs, page, allSnykPRs,
                    csvFile, answer, closeIdx, successCount, failCount, closed,
                    exitCode, served >>

Matched(o, r, s) == [i \in 1..Len(s) |-> [owner |-> o, repo |-> r, pr |-> s[i]]]

\* body of the for..of loop after getAllOpenPRs returned
FilterRepo ==
    /\ pc = "filter"
    /\ LET snykPRs == Filter(scanned)
       IN  IF Len(scanned) = 0 \/ Len(snykPRs) = 0
           THEN /\ repoIdx' = repoIdx + 1
                /\ pc' = "scan"
                /\ UNCHANGED allSnykPRs
           ELSE /\ allSnykPRs' = allSnykPRs \o Matched(owner, repoName, snykPRs)
                /\ pc' = "pause"
                /\ UNCHANGED repoIdx
    /\ UNCHANGED << configFile, repoConfig, prs, page, scanned, csvFile, answer,
                    closeIdx, successCount, failCount, closed, trace, exitCode,
                    served >>

\* setTimeout(resolve, 500) at the end of the loop body
ScanPause ==
    /\ pc = "pause"
    /\ trace' = Append(trace, PauseEvent(ScanDelay))
    /\ repoIdx' = repoIdx + 1
    /\ pc' = "scan"
    /\ UNCHANGED << configFile, repoConfig, prs, page, scanned, allSnykPRs,
                    csvFile, answer, closeIdx, successCount, failCount, closed,
                    exitCode, served >>

\* mutant of NoMatches: the early return is missing
NoMatchesWritesReport ==
    /\ pc = "report"
    /\ Len(allSnykPRs) = 0
    /\ csvFile' = CsvLines(allSnykPRs)
    /\ trace' = Append(trace, WriteEvent(TRUE))
    /\ pc' = "prompt"
    /\ UNCHANGED << configFile, repoConfig, repoIdx, prs, page, scanned,
                    allSnykPRs, answer, closeIdx, successCount, failCount,
                    closed, exitCode, served >>

\* Step 3, no match: rl.close(); return
NoMatches ==
    /\ pc = "report"
    /\ Len(allSnykPRs) = 0
    /\ Exit(0)
    /\ UNCHANGED << configFile, repoConfig, repoIdx, prs, page, scanned,
                    allSnykPRs, csvFile, answer, closeIdx, successCount,
                    failCount, closed, trace, served >>

\* mutant of WriteReport: the report is appended to the file
WriteReportAppends ==
    /\ pc = "report"
    /\ Len(allSnykPRs) # 0
    /\ csvFile' = csvFile \o CsvLines(allSnykPRs)
    /\ trace' = Append(trace, WriteEvent(TRUE))
    /\ pc' = "prompt"
    /\ UNCHANGED << configFile, repoConfig, repoIdx, prs, page, scanned,
                    allSnykPRs, answer, closeIdx, successCount, failCount,
                    closed, exitCode, served >>

\* Step 3: generateCSV, writeFileSync succeeds
WriteReport ==
    /\ pc = "report"
    /\ Len(allSnykPRs) # 0
    /\ csvFile' = CsvLines(allSnykPRs)
    /\ trace' = Append(trace, WriteEvent(TRUE))
    /\ pc' = "prompt"
    /\ UNCHANGED << configFile, repoConfig, repoIdx, prs, page, scanned,
                    allSnykPRs, answer, closeIdx, successCount, failCount,
                    closed, exitCode, served >>

\* mutant of WriteReportFails: the error is swallowed and the run goes on
WriteReportFailsGoesOn ==
    /\ pc = "report"
    /\ Len(allSnykPRs) # 0
    /\ trace' = Append(trace, WriteEvent(FALSE))
    /\ pc' = "prompt"
    /\ UNCHANGED << configFile, repoConfig, repoIdx, prs, page, scanned,
                    allSnykPRs, csvFile, answer, closeIdx, successCount,
                    failCount, closed, exitCode, served >>

\* Step 3: generateCSV, writeFileSync throws; run().catch exits
WriteReportFails ==
    /\ pc = "report"
    /\ Len(allSnykPRs) # 0
    /\ trace' = Append(trace, WriteEvent(FALSE))
    /\ Exit(1)
    /\ UNCHANGED << configFile, repoConfig, repoIdx, prs, page, scanned,
                    allSnykPRs, csvFile, answer, closeIdx, successCount,
                    failCount, closed, served >>

yes == << "y","e","s" >>
y == << "y" >>

\* mutant of IsAffirmative: the answer is searched for "y" instead of compared
IsAffirmativeLoose(a) == includes(toLowerCase(a), y)

\* the condition of the if after the prompt
IsAffirmative(a) == toLowerCase(a) = yes \/ toLowerCase(a) = y

item == allSnykPRs[closeIdx]
Key(it) == << it.owner, it.repo, it.pr.number >>

\* head of the for..of loop over allSnykPRs with the loop at element idx:
\* call closePR on it, or leave the loop, rl.close() and return
CloseLoop(idx) ==
    IF idx > Len(allSnykPRs)
    THEN Exit(0)
    ELSE /\ pc' = "update"
         /\ UNCHANGED exitCode

\* Step 4: askQuestion and the branch on the answer
Confirm ==
    /\ pc = "prompt"
    /\ \E a \in Answers :
        /\ answer' = a
        /\ IF IsAffirmative(a)
           THEN CloseLoop(closeIdx)
           ELSE Exit(0)
    /\ trace' = Append(trace, PromptEvent)
    /\ successCount' = 0
    /\ failCount' = 0
    /\ UNCHANGED << configFile, repoConfig, repoIdx, prs, page, scanned,
                    allSnykPRs, csvFile, closeIdx, closed, served >>

\* closePR: octokit.pulls.update returns
UpdateOk ==
    /\ pc = "update"
    /\ trace' = Append(trace, UpdateCall(item.owner, item.repo, item.pr.number, TRUE))
    /\ closed' = closed \cup {Key(item)}
    /\ pc' = "comment"
    /\ UNCHANGED << configFile, repoConfig, repoIdx, prs, page, scanned,
                    allSnykPRs, csvFile, answer, closeIdx, successCount,
                    failCount, exitCode, served >>

\* mutant of UpdateFails: the comment is created although the update threw
UpdateFailsCommentsAnyway ==
    /\ pc = "update"
    /\ trace' = Append(trace, UpdateCall(item.owner, item.repo, item.pr.number, FALSE))
    /\ pc' = "comment"
    /\ UNCHANGED << configFile, repoConfig, repoIdx, prs, page, scanned,
                    allSnykPRs, csvFile, answer, closeIdx, successCount,
                    failCount, closed, exitCode, served >>

\* mutant of UpdateFails: the failed closePR is counted as a success
UpdateFailsCountsSuccess ==
    /\ pc = "update"
    /\ trace' = Append(trace, UpdateCall(item.owner, item.repo, item.pr.number, FALSE))
    /\ successCount' = successCount + 1
    /\ pc' = "closePause"
    /\ UNCHANGED << configFile, repoConfig, repoIdx, prs, page, scanned,
                    allSnykPRs, csvFile, answer, closeIdx, failCount, closed,
                    exitCode, served >>

\* closePR: octokit.pulls.update throws; closePR returns false
UpdateFails ==
    /\ pc = "update"
    /\ trace' = Append(trace, UpdateCall(item.owner, item.repo, item.pr.number, FALSE))
    /\ failCount' = failCount + 1
    /\ pc' = "closePause"
    /\ UNCHANGED << configFile, repoConfig, repoIdx, prs, page, scanned,
                    allSnykPRs, csvFile, answer, closeIdx, successCount, closed,
                    exitCode, served >>

\* closePR: octokit.issues.createComment returns; closePR returns true
CommentOk ==
    /\ pc = "comment"
    /\ trace' = Append(trace,
                  CommentCall(item.owner, item.repo, item.pr.number, Reason, TRUE))
    /\ successCount' = successCount + 1
    /\ pc' = "closePause"
    /\ UNCHANGED << configFile, repoConfig, repoIdx, prs, page, scanned,
                    allSnykPRs, csvFile, answer, closeIdx, failCount, closed,
                    exitCode, served >>

\* mutant of CommentFails: the catch block returns true
CommentFailsCountsSuccess ==
    /\ pc = "comment"
    /\ trace' = Append(trace,
                  CommentCall(item.owner, item.repo, item.pr.number, Reason, FALSE))
    /\ successCount' = successCount + 1
    /\ pc' = "closePause"
    /\ UNCHANGED << configFile, repoConfig, repoIdx, prs, page, scanned,
                    allSnykPRs, csvFile, answer, closeIdx, failCount, closed,
                    exitCode, served >>

\* mutant of CommentFails: the error leaves closePR and run().catch exits
CommentFailsEscapes ==
    /\ pc = "comment"
    /\ trace' = Append(trace,
                  CommentCall(item.owner, item.repo, item.pr.number, Reason, FALSE))
    /\ Exit(1)
    /\ UNCHANGED << configFile, repoConfig, repoIdx, prs, page, scanned,
                    allSnykPRs, csvFile, answer, closeIdx, successCount,
                    failCount, closed, served >>

\* closePR: octokit.issues.createComment throws; closePR returns false
CommentFails ==
    /\ pc = "comment"
    /\ trace' = Append(trace,
                  CommentCall(item.owner, item.repo, item.pr.number, Reason, FALSE))
    /\ failCount' = failCount + 1
    /\ pc' = "closePause"
    /\ UNCHANGED << configFile, repoConfig, repoIdx, prs, page, scanned,
                    allSnykPRs, csvFile, answer, closeIdx, successCount, closed,
                    exitCode, served >>

\* mutant of ClosePause: the loop takes the same element again
ClosePauseSameElement ==
    /\ pc = "closePause"
    /\ trace' = Append(trace, PauseEvent(CloseDelay))
    /\ CloseLoop(closeIdx)
    /\ UNCHANGED << configFile, repoConfig, repoIdx, prs, page, scanned,
                    allSnykPRs, csvFile, answer, closeIdx, successCount,
                    failCount, closed, served >>

\* setTimeout(resolve, 1000) at the end of the closing loop body, and the
\* next turn of the loop
ClosePause ==
    /\ pc = "closePause"
    /\ trace' = Append(trace, PauseEvent(CloseDelay))
    /\ closeIdx' = closeIdx + 1
    /\ CloseLoop(closeIdx + 1)
    /\ UNCHANGED << configFile, repoConfig, repoIdx, prs, page, scanned,
                    allSnykPRs, csvFile, answer, successCount, failCount, closed,
                    served >>

Next ==
    \/ LoadConfig
    \/ ScanRepo
    \/ ListReturnsPage
    \/ ListReturnsEmpty
    \/ ListFails
    \/ FilterRepo
    \/ ScanPause
    \/ NoMatches
    \/ WriteReport
    \/ WriteReportFails
    \/ Confirm
    \/ UpdateOk
    \/ UpdateFails
    \/ CommentOk
    \/ CommentFails
    \/ ClosePause

Spec == Init /\ [][Next]_vars

-----------------------------------------------------------------------------
(* Reading the trace *)

IsMutating(e) == e.op = "update" \/ e.op = "comment"

\* positions of the trace that hold a mutating collaborator call
MutatingAt == { i \in DOMAIN trace : IsMutating(trace[i]) }

\* the (owner, repo, PR number) of every setPullRequestState call made so far
UpdatedKeys ==
    { << trace[i].owner, trace[i].repo, trace[i].pull_number >> :
        i \in { j \in DOMAIN trace : trace[j].op = "update" } }

\* the (owner, repo, PR number) of every data row of the CSV on disk
CsvKeys ==
    IF csvFile \in {NoFile, OldFile} THEN {}
    ELSE { << csvFile[i][2], csvFile[i][1], csvFile[i][3] >> :
             i \in 2..Len(csvFile) }

-----------------------------------------------------------------------------
(* Claims *)

\* C1: a setPullRequestState or createIssueComment call occurs only after the
\* prompt was answered with a string whose lower-casing is exactly "yes" or
\* "y"; after any other answer the run has ended without a mutating call and
\* the CSV written before the prompt is still on disk.
C1_OnlyAfterYes ==
    LET lowered == toLowerCase(answer)
        affirmative == lowered = << "y","e","s" >> \/ lowered = << "y" >>
    IN  /\ MutatingAt # {}
           => /\ affirmative
              /\ \A i \in MutatingAt :
                    \E j \in 1..(i - 1) : trace[j].op = "prompt"
        /\ (answer # NoAnswer /\ ~ affirmative)
           => /\ MutatingAt = {}
              /\ closed = {}
              /\ pc = "done"
              /\ csvFile \notin {NoFile, OldFile}
              /\ Len(csvFile) = Len(allSnykPRs) + 1
              /\ \E i \in DOMAIN trace : trace[i] = WriteEvent(TRUE)

\* C1 witness: the prompt was answered "YeS" and a pull request was closed
C1_Witness ==
    /\ answer = << "Y","e","S" >>
    /\ MutatingAt # {}

\* C1 witness of the decline: " yes" with a leading blank ended the run
C1_DeclineReached ==
    /\ answer = << " ","y","e","s" >>
    /\ pc = "done"

\* C2: the pull requests for which setPullRequestState was called all have a
\* row in the CSV on disk, and a successful CSV write precedes the first
\* mutating collaborator call.
C2_ClosedSubsetOfReport ==
    /\ UpdatedKeys \subseteq CsvKeys
    /\ closed \subseteq CsvKeys
    /\ \A i \in MutatingAt :
        \E j \in 1..(i - 1) : trace[j] = WriteEvent(TRUE)

\* C2 witness: both matched pull requests of a report were closed
C2_Witness ==
    /\ Cardinality(UpdatedKeys) = 2
    /\ UpdatedKeys = CsvKeys

IsUpdate(e) == e.op = "update"

\* the setPullRequestState calls made so far, in order
Updates == SelectSeq(trace, IsUpdate)

\* the comment call for the pull request of update call u
IsCommentFor(e, u) ==
    /\ e.op = "comment"
    /\ e.owner = u.owner
    /\ e.repo = u.repo
    /\ e.issue_number = u.pull_number
    /\ e.body = Reason

\* C3 as the specification states it: for every matched pull request closePR
\* has processed, the state update and the comment were both attempted,
\* whatever the outcome of the state update.
C3_BothAlwaysAttempted ==
    \A i \in DOMAIN trace :
        (trace[i].op = "update" /\ i < Len(trace))
        => IsCommentFor(trace[i + 1], trace[i])

\* C3 amended: for every matched pull request closePR has processed, the
\* state update to closed was attempted, and the comment with the fixed reason
\* text was attempted if and only if the state update succeeded.
C3_CommentIffUpdated ==
    LET u == Updates
    IN  /\ \A k \in 1..(closeIdx - 1) :
            /\ k <= Len(u)
            /\ u[k].state = "closed"
            /\ << u[k].owner, u[k].repo, u[k].pull_number >> = Key(allSnykPRs[k])
        /\ \A i \in DOMAIN trace :
            (trace[i].op = "update" /\ i < Len(trace))
            => (trace[i].ok <=> IsCommentFor(trace[i + 1], trace[i]))

\* C3 witness: a state update failed and closePR has returned
C3_Witness ==
    \E i \in DOMAIN trace :
        /\ trace[i].op = "update"
        /\ ~ trace[i].ok
        /\ i < Len(trace)
        /\ closeIdx > 1

\* number of collaborator calls of closePR that threw
FailedCalls ==
    Cardinality({ i \in MutatingAt : ~ trace[i].ok })

\* number of update calls among the first i events
UpdatesUpTo(i) ==
    Cardinality({ j \in 1..i : trace[j].op = "update" })

\* C4: when setPullRequestState succeeded and createIssueComment threw, the
\* pull request stays closed, closePR counts as failed (the failure counter
\* counts every closePR that threw, the success counter does not move), the
\* only thing that follows is the pause, and the next call is the state
\* update of the next matched pull request.
C4_CommentFailure ==
    /\ failCount = FailedCalls
    /\ successCount + failCount
         = Cardinality({ i \in MutatingAt : trace[i].op = "comment" }) + 
           Cardinality({ i \in MutatingAt : trace[i].op = "update" /\ ~ trace[i].ok })
    /\ \A i \in DOMAIN trace :
        (trace[i].op = "comment" /\ ~ trace[i].ok)
        => /\ i > 1
           /\ trace[i - 1].op = "update"
           /\ trace[i - 1].ok
           /\ << trace[i].owner, trace[i].repo, trace[i].issue_number >> \in closed
           /\ i < Len(trace) => trace[i + 1] = PauseEvent(CloseDelay)
           /\ i + 1 < Len(trace)
              => /\ trace[i + 2].op = "update"
                 /\ UpdatesUpTo(i) < Len(allSnykPRs)
                 /\ << trace[i + 2].owner, trace[i + 2].repo,
                       trace[i + 2].pull_number >>
                      = Key(allSnykPRs[UpdatesUpTo(i) + 1])
           /\ (i + 1 = Len(trace) /\ UpdatesUpTo(i) < Len(allSnykPRs))
              => /\ pc = "update"
                 /\ closeIdx = UpdatesUpTo(i) + 1
                 /\ exitCode = NoExit

\* C4 witness: a comment failed after its state update succeeded and the
\* state update of the next matched pull request has been made
C4_Witness ==
    \E i \in DOMAIN trace :
        /\ trace[i].op = "comment"
        /\ ~ trace[i].ok
        /\ i + 1 < Len(trace)
        /\ trace[i + 2].op = "update"
        /\ failCount >= 1

\* the list calls made by iteration k of the repository loop, in order
ScanCalls(k) ==
    LET OfScan(e) == e.op = "list" /\ e.scan = k
    IN  SelectSeq(trace, OfScan)

RECURSIVE Flatten(_)
\* the pages returned to a sequence of list calls, concatenated in order
Flatten(calls) ==
    IF calls = << >> THEN << >>
    ELSE calls[1].data \o Flatten(Tail(calls))

\* a list call of iteration k threw
ScanFailed(k) ==
    \E i \in DOMAIN trace :
        trace[i].op = "list" /\ trace[i].scan = k /\ ~ trace[i].ok

\* iterations of the repository loop whose matches have been collected
DoneScans == IF pc = "pause" THEN repoIdx ELSE repoIdx - 1

\* what iteration k contributes to the matched sequence when a failed scan
\* counts as the empty sequence
Contribution(k) ==
    IF ScanFailed(k) THEN << >>
    ELSE Matched(repoConfig[k].owner, repoConfig[k].repoName,
                 Filter(Flatten(ScanCalls(k))))

RECURSIVE Contributions(_)
Contributions(n) ==
    IF n = 0 THEN << >> ELSE Contributions(n - 1) \o Contribution(n)

\* C5: when a list call fails on any page of a repository's scan, the scan
\* returns the empty sequence, the pull requests of the pages fetched before
\* are matched by nobody, the run is not aborted, and every later configured
\* repository is scanned.
C5_FailedScanIsolated ==
    /\ (pc = "filter" /\ ScanFailed(repoIdx)) => scanned = << >>
    /\ allSnykPRs = Contributions(DoneScans)
    /\ \A k \in 1..DoneScans :
        \E i \in DOMAIN trace :
            /\ trace[i].op = "list"
            /\ trace[i].scan = k
            /\ trace[i].owner = repoConfig[k].owner
            /\ trace[i].repo = repoConfig[k].repoName
    /\ (pc \notin {"load", "scan", "list", "filter", "pause"}
        /\ configFile.kind = "object"
        /\ repoIdx <= Len(repoConfig))
       => ~ repoConfig[repoIdx].hasGithub

\* C5 witness: the first repository's scan failed on page 2 after a page
\* holding a Snyk pull request, and the second repository was scanned to
\* its end
C5_Witness ==
    /\ pc = "report"
    /\ Len(repoConfig) = 2
    /\ Len(ScanCalls(1)) = 2
    /\ ~ ScanCalls(1)[2].ok
    /\ Filter(ScanCalls(1)[1].data) # << >>
    /\ ScanCalls(2) # << >>

\* iteration k of the repository loop has got its value from getAllOpenPRs
Returned(k) == k <= DoneScans \/ (k = repoIdx /\ pc = "filter")

\* C6: the list calls of one getAllOpenPRs invocation carry the page numbers
\* 1, 2, 3, ... in that order with state open and page size 100; every call
\* but the last returned a non-empty page, so the invocation stops at the
\* first empty page, k non-empty pages make exactly k + 1 calls, and the
\* value returned is the concatenation of the pages in returned order.
C6_Pagination ==
    \A k \in DOMAIN repoConfig :
        LET c == ScanCalls(k)
        IN  /\ \A j \in DOMAIN c :
                /\ c[j].page = j
                /\ c[j].per_page = 100
                /\ c[j].state = "open"
                /\ c[j].owner = repoConfig[k].owner
                /\ c[j].repo = repoConfig[k].repoName
                /\ j < Len(c) => (c[j].ok /\ c[j].data # << >>)
            /\ Returned(k)
               => /\ c # << >>
                  /\ c[Len(c)].data = << >>
            /\ (k = repoIdx /\ pc = "filter" /\ ~ ScanFailed(k))
               => scanned = Flatten(c)
            /\ (k = repoIdx /\ pc = "list")
               => /\ page = Len(c) + 1
                  /\ prs = Flatten(c)

\* C6 witness: two non-empty pages and an empty third one, three calls
C6_Witness ==
    /\ pc = "filter"
    /\ Len(ScanCalls(repoIdx)) = 3
    /\ ScanCalls(repoIdx)[3].ok
    /\ Len(scanned) = 2
    /\ scanned[1] # scanned[2]

\* C7 as the specification states it: every scan of a repository after the
\* first one is preceded by a pause, whatever the scan before it returned.
C7_PauseBetweenScans ==
    \A i \in DOMAIN trace :
        (i > 1 /\ trace[i].op = "list" /\ trace[i].page = 1)
        => trace[i - 1] = PauseEvent(ScanDelay)

\* the run went through the whole repository loop
ScanComplete ==
    /\ configFile.kind = "object"
    /\ pc \notin {"load", "scan", "list", "filter", "pause"}
    /\ repoIdx = Len(repoConfig) + 1

\* C8: when the scan of all configured repositories yields zero matched pull
\* requests, the CSV is never written, the prompt never shown, no mutating
\* call made, and the run ends with exit code 0.
C8_NoMatchesNoAction ==
    (ScanComplete /\ allSnykPRs = << >>)
    => /\ csvFile \in {NoFile, OldFile}
       /\ answer = NoAnswer
       /\ closed = {}
       /\ \A i \in DOMAIN trace : trace[i].op = "list"
       /\ pc \in {"report", "done"}
       /\ pc = "done" => exitCode = 0

\* C8 witness: two repositories were scanned, one of them holding an open
\* pull request, nothing matched and the run has ended
C8_Witness ==
    /\ ScanComplete
    /\ allSnykPRs = << >>
    /\ pc = "done"
    /\ Len(repoConfig) = 2
    /\ \E i \in DOMAIN trace : trace[i].op = "list" /\ trace[i].data # << >>

\* C9: whenever the run has exited non-zero, no setPullRequestState or
\* createIssueComment call has occurred in it.
C9_FatalBeforeMutation ==
    exitCode \notin {NoExit, 0}
    => /\ MutatingAt = {}
       /\ closed = {}

\* C9 witness: the CSV could not be written and the run exited with 1
C9_Witness ==
    /\ exitCode = 1
    /\ trace # << >>
    /\ trace[Len(trace)] = WriteEvent(FALSE)

\* C10: when the configuration file is missing or is not valid JSON, the run
\* ends with a non-zero exit status without any collaborator call, without
\* writing the CSV and without prompting.
C10_ConfigError ==
    configFile.kind \in {"missing", "invalid"}
    => /\ trace = << >>
       /\ csvFile \in {NoFile, OldFile}
       /\ answer = NoAnswer
       /\ pc \in {"load", "done"}
       /\ pc = "done" => exitCode \notin {NoExit, 0}

\* C10 witness: the run on a configuration file that is not valid JSON has
\* ended
C10_Witness ==
    /\ configFile.kind = "invalid"
    /\ pc = "done"
    /\ exitCode = 1

\* number of calls of one operation with one outcome
CountCalls(op, ok) ==
    Cardinality({ i \in DOMAIN trace : trace[i].op = op /\ trace[i].ok = ok })

\* the closing loop has run over the whole matched sequence
CloserFinished ==
    /\ pc = "done"
    /\ allSnykPRs # << >>
    /\ closeIdx > Len(allSnykPRs)

\* C11: after the Closer has processed the full matched sequence,
\* successCount + failCount is the number of matched pull requests, closePR
\* was invoked once per element of the matched sequence (as many state
\* updates as elements, the k-th one for the k-th element), successCount is
\* the number of elements for which both calls succeeded and failCount the
\* number for which one of them failed.
C11_Tally ==
    CloserFinished
    => /\ successCount + failCount = Len(allSnykPRs)
       /\ Len(Updates) = Len(allSnykPRs)
       /\ \A k \in DOMAIN allSnykPRs :
            << Updates[k].owner, Updates[k].repo, Updates[k].pull_number >>
              = Key(allSnykPRs[k])
       /\ successCount = CountCalls("comment", TRUE)
       /\ CountCalls("comment", TRUE) + CountCalls("comment", FALSE)
            = CountCalls("update", TRUE)
       /\ failCount = CountCalls("update", FALSE) + CountCalls("comment", FALSE)
       /\ exitCode = 0

\* C11 witness: two matched pull requests were processed, one closed with its
\* comment and one failed
C11_Witness ==
    /\ CloserFinished
    /\ Len(allSnykPRs) = 2
    /\ successCount = 1
    /\ failCount = 1

\* position of an entry in the configuration file
PosInFile(e) == CHOOSE i \in DOMAIN configFile.entries : configFile.entries[i] = e

\* the repository loop iterates the entries of the file, those under
\* integer-index keys first in ascending numeric order, then the others in
\* file order
EnumerationOrder ==
    /\ Len(repoConfig) = Len(configFile.entries)
    /\ \A i \in DOMAIN repoConfig :
        \E j \in DOMAIN configFile.entries : configFile.entries[j] = repoConfig[i]
    /\ \A i, j \in DOMAIN repoConfig :
        i < j
        => LET a == repoConfig[i]
               b == repoConfig[j]
           IN  /\ IsIndexKey(b.key) => IsIndexKey(a.key)
               /\ (IsIndexKey(a.key) /\ IsIndexKey(b.key))
                  => NumValue(a.key) < NumValue(b.key)
               /\ (~ IsIndexKey(a.key) /\ ~ IsIndexKey(b.key))
                  => PosInFile(a) < PosInFile(b)

\* the list calls are made repository by repository, in the order of the loop
ScansInLoopOrder ==
    \A i, j \in DOMAIN trace :
        (i < j /\ trace[i].op = "list" /\ trace[j].op = "list")
        => /\ trace[i].scan <= trace[j].scan
           /\ trace[j].scan <= Len(repoConfig)
           /\ trace[j].owner = repoConfig[trace[j].scan].owner
           /\ trace[j].repo = repoConfig[trace[j].scan].repoName

\* C12 as the specification states it: repositories are scanned in
\* configuration-file key order.
C12_FileKeyOrder ==
    \A i \in DOMAIN trace :
        trace[i].op = "list"
        => /\ trace[i].owner = configFile.entries[trace[i].scan].owner
           /\ trace[i].repo = configFile.entries[trace[i].scan].repoName

\* C12 amended: repositories are scanned in the order Object.entries gives the
\* keys of the configuration (integer-index keys first, ascending, then the
\* other keys in file order); the matched sequence lists the matched pull
\* requests repository by repository in that order and within a repository
\* in collaborator-returned order; closePR is invoked in the order of the
\* matched sequence, which is the row order of the CSV.
C12_Ordering ==
    /\ pc # "load" /\ configFile.kind = "object" => EnumerationOrder
    /\ ScansInLoopOrder
    /\ pc \in {"scan", "pause", "report", "prompt"}
       => allSnykPRs = Contributions(DoneScans)
    /\ \A k \in DOMAIN Updates :
        /\ k <= Len(allSnykPRs)
        /\ << Updates[k].owner, Updates[k].repo, Updates[k].pull_number >>
             = Key(allSnykPRs[k])
    /\ csvFile \notin {NoFile, OldFile}
       => /\ Len(csvFile) = Len(allSnykPRs) + 1
          /\ \A k \in DOMAIN allSnykPRs :
               << csvFile[k + 1][2], csvFile[k + 1][1], csvFile[k + 1][3] >>
                 = Key(allSnykPRs[k])

\* C12 witness: the file names cli before 7, the loop took 7 first, both
\* repositories had a match and both matches went through closePR
C12_Witness ==
    /\ configFile.kind = "object"
    /\ Len(repoConfig) = 2
    /\ repoConfig # configFile.entries
    /\ Len(allSnykPRs) = 2
    /\ allSnykPRs[1].repo # allSnykPRs[2].repo
    /\ Len(Updates) = 2

-----------------------------------------------------------------------------
(* isSnykPR on its own: the filter of one repository whose listing is one    *)
(* pull request, over a set of titles and author logins                      *)

BumpLodash ==
    << "B","u","m","p"," ","l","o","d","a","s","h"," ","t","o"," ",
       "4",".","1","7",".","2","1" >>
Dependabot == << "d","e","p","e","n","d","a","b","o","t" >>

SnykTitles ==
    { BumpLodash,
      << "[","S","n","y","k","]"," ","F","i","x" >>,
      << "f","i","x"," ","S","N","Y","K" >>,
      << "s","N","y","K" >>,
      << "s","n","y","k" >>,
      << "[","s","n","y","k","]" >>,
      << "a","s","n","y","k","b" >>,
      << "s","n","y"," ","k" >>,
      << "s","y","n","k" >>,
      << "k","y","n","s" >>,
      << >> }

SnykLogins ==
    { Dependabot,
      << "s","n","y","k","-","b","o","t" >>,
      << "S","n","y","k","-","B","o","t" >>,
      << "S","N","Y","K","-","B","O","T" >>,
      << "s","n","y","k","-","i","o","-","b","o","t" >>,
      << "m","y","S","N","Y","K" >>,
      << "s","n","y","-","b","o","t" >>,
      << "s","n","y","k","_","b","o","t" >>,
      << "b","o","b" >>,
      << >> }

InitFilter ==
    /\ configFile = [kind |-> "object",
                     entries |-> << [key |-> << "c","l","i" >>, hasGithub |-> TRUE,
                                     owner |-> "acme", repoName |-> "cli"] >>]
    /\ pc = "filter"
    /\ repoConfig = configFile.entries
    /\ repoIdx = 1
    /\ prs = << >>
    /\ page = 2
    /\ \E t \in SnykTitles, l \in SnykLogins :
        scanned = << [number |-> 1, title |-> t, user |-> [login |-> l],
                      created_at |-> "2024-01-01", updated_at |-> "2024-01-02",
                      html_url |-> "u1"] >>
    /\ allSnykPRs = << >>
    /\ csvFile = NoFile
    /\ answer = NoAnswer
    /\ closeIdx = 1
    /\ successCount = 0
    /\ failCount = 0
    /\ closed = {}
    /\ trace = << >>
    /\ exitCode = NoExit
    /\ served = 1

NextFilter == FilterRepo

SpecFilter == InitFilter /\ [][NextFilter]_vars

\* the letters s, n, y, k in either case, and the login snyk-bot likewise
SnykEitherCase == << {"s","S"}, {"n","N"}, {"y","Y"}, {"k","K"} >>
SnykBotEitherCase ==
    SnykEitherCase \o << {"-"}, {"b","B"}, {"o","O"}, {"t","T"} >>

\* s holds the letters of pat, in either case, from position i + 1 on
MatchesAt(s, pat, i) ==
    /\ i + Len(pat) <= Len(s)
    /\ \A j \in DOMAIN pat : s[i + j] \in pat[j]

ContainsSnyk(s) == \E i \in 0..Len(s) : MatchesAt(s, SnykEitherCase, i)

IsSnykBot(s) == Len(s) = 8 /\ MatchesAt(s, SnykBotEitherCase, 0)

\* C13: isSnykPR is true if and only if the title contains "snyk" in some
\* letter case, or the author login is "snyk-bot" in some letter case, or the
\* author login contains "snyk" in some letter case; a title with "snyk" gives
\* true whatever the author, and "Bump lodash to 4.17.21" by "dependabot"
\* gives false.
C13_Classification ==
    pc # "filter"
    => LET pr == scanned[1]
           matched == allSnykPRs # << >>
       IN  /\ matched <=> \/ ContainsSnyk(pr.title)
                          \/ IsSnykBot(pr.user.login)
                          \/ ContainsSnyk(pr.user.login)
           /\ ContainsSnyk(pr.title) => matched
           /\ (pr.title = BumpLodash /\ pr.user.login = Dependabot) => ~ matched
           /\ matched => allSnykPRs = << [owner |-> "acme", repo |-> "cli", pr |-> pr] >>

\* C13 witness: the title "fix SNYK" by dependabot went through the filter
\* and was matched
C13_Witness ==
    /\ pc = "pause"
    /\ scanned[1].title = << "f","i","x"," ","S","N","Y","K" >>
    /\ scanned[1].user.login = Dependabot
    /\ allSnykPRs # << >>

\* C13 witness of the negative case: "Bump lodash to 4.17.21" by dependabot
\* went through the filter unmatched
C13_BumpLodashReached ==
    /\ pc = "scan"
    /\ scanned[1].title = BumpLodash
    /\ scanned[1].user.login = Dependabot

-----------------------------------------------------------------------------
(* generateCSV on its own: the report of one matched pull request, over a    *)
(* set of titles                                                             *)

HeSaid ==
    << "H","e"," ","s","a","i","d"," ",Quote,"f","i","x",Quote," ","n","o","w" >>

HeSaidField ==
    << Quote,"H","e"," ","s","a","i","d"," ",Quote,Quote,"f","i","x",
       Quote,Quote," ","n","o","w",Quote >>

\* longest title of the set, in characters
MaxTitle == 4

CsvTitles ==
    {HeSaid} \cup UNION { [1..n -> {"a", ",", Quote}] : n \in 0..MaxTitle }

InitReport ==
    /\ configFile = [kind |-> "object",
                     entries |-> << [key |-> << "c","l","i" >>, hasGithub |-> TRUE,
                                     owner |-> "acme", repoName |-> "cli"] >>]
    /\ pc = "report"
    /\ repoConfig = configFile.entries
    /\ repoIdx = 2
    /\ prs = << >>
    /\ page = 2
    /\ scanned = << >>
    /\ \E t \in CsvTitles :
        allSnykPRs =
          << [owner |-> "acme", repo |-> "cli",
              pr |-> [number |-> 1, title |-> t, user |-> [login |-> snykBot],
                      created_at |-> "2024-01-01", updated_at |-> "2024-01-02",
                      html_url |-> "u1"]] >>
    /\ csvFile \in {NoFile, OldFile}
    /\ answer = NoAnswer
    /\ closeIdx = 1
    /\ successCount = 0
    /\ failCount = 0
    /\ closed = {}
    /\ trace = << >>
    /\ exitCode = NoExit
    /\ served = 1

NextReport == WriteReport \/ WriteReportFails

SpecReport == InitReport /\ [][NextReport]_vars

Malformed == "<malformed>"

RECURSIVE Undouble(_)
\* the content of a quoted CSV field: each doubled quote stands for one quote,
\* a single quote inside the field is an error
Undouble(s) ==
    IF s = << >> THEN << >>
    ELSE IF Head(s) # Quote THEN << Head(s) >> \o Undouble(Tail(s))
    ELSE IF Len(s) >= 2 /\ s[2] = Quote
         THEN << Quote >> \o Undouble(SubSeq(s, 3, Len(s)))
         ELSE << Malformed >>

\* standard CSV reading of a quoted field
CsvUnescape(field) ==
    IF Len(field) >= 2 /\ field[1] = Quote /\ field[Len(field)] = Quote
    THEN Undouble(SubSeq(field, 2, Len(field) - 1))
    ELSE << Malformed >>

QuotesIn(s) == Cardinality({ i \in DOMAIN s : s[i] = Quote })

\* C14: the title field of a CSV row is the title wrapped in double quotes
\* with every internal double quote doubled, and reading the field back under
\* the CSV quote rules gives the title; He said "fix" now becomes
\* "He said ""fix"" now".
C14_TitleRoundTrip ==
    pc = "prompt"
    => \A k \in DOMAIN allSnykPRs :
        LET title == allSnykPRs[k].pr.title
            field == csvFile[k + 1][4]
        IN  /\ Len(field) = Len(title) + QuotesIn(title) + 2
            /\ QuotesIn(field) = 2 * QuotesIn(title) + 2
            /\ field[1] = Quote
            /\ field[Len(field)] = Quote
            /\ CsvUnescape(field) = title
            /\ title = HeSaid => field = HeSaidField

\* C14 witness: the report of the title He said "fix" now was written
C14_Witness ==
    /\ pc = "prompt"
    /\ allSnykPRs[1].pr.title = HeSaid
    /\ csvFile[2][4] = HeSaidField

-----------------------------------------------------------------------------
(* The run as a whole *)

\* number of times writeFileSync was called on CSV_FILE
Writes == Cardinality({ i \in DOMAIN trace : trace[i].op = "writeCSV" })

\* C15 as the specification states it: the CSV file is written exactly once
\* in every run.
C15_WrittenOnceEveryRun ==
    pc = "done" => Writes = 1

\* C15 amended: the CSV file is written at most once per run; it is written,
\* exactly once, in the runs whose scan ends with a matched pull request,
\* and not at all in the others; a successful write replaces whatever the
\* file held.
C15_WrittenAtMostOnce ==
    /\ Writes <= 1
    /\ Writes = 1 <=> (ScanComplete /\ allSnykPRs # << >> /\ pc # "report")
    /\ IF \E i \in DOMAIN trace : trace[i] = WriteEvent(TRUE)
       THEN csvFile = CsvLines(allSnykPRs)
       ELSE csvFile \in {NoFile, OldFile}

\* C15 witness: the report of two matched pull requests is on disk and the
\* run has gone on to close them
C15_Witness ==
    /\ Writes = 1
    /\ Len(csvFile) = 3
    /\ csvFile[1] = Headers
    /\ pc = "update"

\* the stage of the run the process is in; after the repository loop the
\* run is at the no-matches exit of SCAN or about to write the report
stage ==
    CASE pc = "load" -> "LOAD_CONFIG"
      [] pc \in {"scan", "list", "filter", "pause"} -> "SCAN"
      [] pc = "report" -> IF allSnykPRs = << >> THEN "SCAN" ELSE "WRITE_REPORT"
      [] pc = "prompt" -> "CONFIRM"
      [] pc \in {"update", "comment", "closePause"} -> "CLOSE_ALL"
      [] pc = "done" -> "TERMINATE"

\* the transitions of the state machine of the specification
StagePath ==
    { << "LOAD_CONFIG", "SCAN" >>, << "SCAN", "WRITE_REPORT" >>,
      << "SCAN", "TERMINATE" >>, << "WRITE_REPORT", "CONFIRM" >>,
      << "CONFIRM", "CLOSE_ALL" >>, << "CONFIRM", "TERMINATE" >>,
      << "CLOSE_ALL", "TERMINATE" >> }

\* C16 as the specification states it: the stages follow one another in the
\* order LOAD_CONFIG, SCAN, WRITE_REPORT, CONFIRM, CLOSE_ALL, TERMINATE, and
\* but for the no-matches exit after SCAN and the prompt every transition is
\* unconditional: LOAD_CONFIG leads to SCAN, SCAN ends only by going to
\* WRITE_REPORT or through the no-matches exit, WRITE_REPORT leads to CONFIRM.
C16_OnlyPromptBranches ==
    [][ \/ stage' = stage
        \/ /\ << stage, stage' >> \in StagePath
           /\ (stage = "SCAN" /\ stage' = "TERMINATE")
              => (ScanComplete' /\ allSnykPRs' = << >> /\ exitCode' = 0) ]_vars

\* C16 amended: the stages are entered in forward order only, each at most
\* once; besides the no-matches exit and the prompt, the next stage depends
\* on a condition at the three fatal exits, which lead to TERMINATE with
\* status 1: from LOAD_CONFIG when the configuration cannot be read, from
\* SCAN when an error escapes the repository loop, from WRITE_REPORT when the
\* file cannot be written.  Every other transition is unconditional.
C16_ForwardStages ==
    [][ \/ stage' = stage
        \/ /\ << stage, stage' >> \in
                StagePath \cup { << "LOAD_CONFIG", "TERMINATE" >>,
                                 << "WRITE_REPORT", "TERMINATE" >> }
           /\ (stage = "LOAD_CONFIG" /\ stage' = "SCAN")
              => configFile.kind = "object"
           /\ (stage = "LOAD_CONFIG" /\ stage' = "TERMINATE")
              => (configFile.kind # "object" /\ exitCode' = 1)
           /\ (stage = "SCAN" /\ stage' = "TERMINATE")
              => \/ ScanComplete' /\ allSnykPRs' = << >> /\ exitCode' = 0
                 \/ /\ exitCode' = 1
                    /\ repoIdx <= Len(repoConfig)
                    /\ ~ repoConfig[repoIdx].hasGithub
           /\ (stage = "SCAN" /\ stage' = "WRITE_REPORT")
              => (ScanComplete' /\ allSnykPRs' # << >>)
           /\ (stage = "WRITE_REPORT" /\ stage' = "CONFIRM")
              => (trace' = Append(trace, WriteEvent(TRUE))
                  /\ csvFile' = CsvLines(allSnykPRs))
           /\ (stage = "WRITE_REPORT" /\ stage' = "TERMINATE")
              => (trace' = Append(trace, WriteEvent(FALSE)) /\ exitCode' = 1)
           /\ (stage = "CONFIRM" /\ stage' = "CLOSE_ALL")
              => toLowerCase(answer') \in { << "y","e","s" >>, << "y" >> }
           /\ (stage = "CONFIRM" /\ stage' = "TERMINATE")
              => (toLowerCase(answer') \notin { << "y","e","s" >>, << "y" >> }
                  /\ exitCode' = 0)
           /\ (stage = "CLOSE_ALL" /\ stage' = "TERMINATE")
              => (closeIdx' > Len(allSnykPRs) /\ exitCode' = 0) ]_vars

\* C16 witness: an error escaped the repository loop after the scan of the
\* first repository and the run went from SCAN to TERMINATE
C16_Witness ==
    /\ stage = "TERMINATE"
    /\ exitCode = 1
    /\ configFile.kind = "object"
    /\ trace # << >>
    /\ trace[Len(trace)].op = "list"

\* C17: createIssueComment is called for a pull request only right after
\* setPullRequestState for that pull request returned in the same closePR
\* invocation, so a failed state update is never followed by the comment;
\* each element of the matched sequence gets at most one state-update call
\* and at most one comment call.
C17_CommentAfterUpdate ==
    /\ \A i \in DOMAIN trace :
        trace[i].op = "comment"
        => /\ i > 1
           /\ trace[i - 1].op = "update"
           /\ trace[i - 1].ok
           /\ trace[i - 1].owner = trace[i].owner
           /\ trace[i - 1].repo = trace[i].repo
           /\ trace[i - 1].pull_number = trace[i].issue_number
    /\ \A i \in DOMAIN trace :
        trace[i].op = "update"
        => /\ UpdatesUpTo(i) <= Len(allSnykPRs)
           /\ << trace[i].owner, trace[i].repo, trace[i].pull_number >>
                = Key(allSnykPRs[UpdatesUpTo(i)])

\* C17 witness: the state update of the first matched pull request failed,
\* no comment followed, and the second one got its update and its comment
C17_Witness ==
    /\ Len(Updates) = 2
    /\ ~ Updates[1].ok
    /\ CountCalls("comment", TRUE) = 1
    /\ CountCalls("comment", FALSE) = 0

\* the run never stops while a step of it is possible: every collaborator
\* call returns or throws, every timer fires, the prompt is answered
FairSpec == Spec /\ WF_vars(Next)

\* C18: every run ends, and getAllOpenPRs leaves its loop only on an empty
\* page or on an error, whatever the page number: while the collaborator
\* returns non-empty pages the scan of the repository goes on.
C18_Termination ==
    /\ <>(pc = "done")
    /\ [][ (pc = "list" /\ pc' # "list")
           => /\ trace' # trace
              /\ trace'[Len(trace')].op = "list"
              /\ trace'[Len(trace')].data = << >> ]_vars
    /\ [][ (pc = "list" /\ trace' # trace /\ trace'[Len(trace')].data # << >>)
           => (pc' = "list" /\ page' = page + 1) ]_vars

\* C18 witness: a run whose first repository took three list calls has ended
C18_Witness ==
    /\ pc = "done"
    /\ \E i \in DOMAIN trace : trace[i].op = "list" /\ trace[i].page = 3

=============================================================================
